---- MODULE Spec2Model ----
(***************************************************************************)
(* Model of sethjback/jpatch: validation and translation of RFC 6902 JSON   *)
(* patches against a declared path schema (PathSegment / PathValue).        *)
(*                                                                         *)
(* Strings.  A Go string is modelled as a sequence of tokens.  The token    *)
(* "/" is the separator character; every other token is a non-empty,       *)
(* separator-free chunk of characters ("rFoo", "bar", "-", "1").  Two       *)
(* chunks are never adjacent, so a segment of a path is either the empty    *)
(* string "" or one chunk, and a segment is written as a TLA+ string.       *)
(***************************************************************************)
EXTENDS Integers, Sequences, FiniteSets, TLC

VARIABLES
    \* ---- ProcessPatches (one call) ----
    patches,      \* the batch handed to ProcessPatches
    idx,          \* position of the range loop over patches (next to process)
    errs,         \* var errs []error
    vAdd,         \* the four buckets
    vRemove,
    vMove,
    vReplace,
    pc,           \* "loop", "done", or "idle" when not running
    ret,          \* what ProcessPatches returned: [patches, errs]
    handed,       \* the arguments of every ValidateJPatchPatches call so far
    \* ---- validatePatch (one call) ----
    vp,           \* the patch handed to validatePatch
    vpc,          \* "call", "done", or "idle"
    verr,         \* the error validatePatch returned
    \* ---- traceObjectPathString (one call, one loop iteration per step) ----
    tpath,        \* the path being traced
    tstate,       \* the locals of the loop: i, currentSegment, finalPath, lastPath
    tpc,          \* "loop", "done", or "idle"
    tret,         \* what traceObjectPathString returned: [path, val, err]
    \* ---- one call of validatePath, of Patch.Shift, or of jpatcherror.New ----
    call,         \* the function called and its arguments
    cpc,          \* "call", "done", or "idle"
    cret          \* what the call returned

pvars == <<patches, idx, errs, vAdd, vRemove, vMove, vReplace, pc, ret, handed>>
vvars == <<vp, vpc, verr>>
tvars == <<tpath, tstate, tpc, tret>>
cvars == <<call, cpc, cret>>
vars  == <<patches, idx, errs, vAdd, vRemove, vMove, vReplace, pc, ret, handed,
           vp, vpc, verr, tpath, tstate, tpc, tret, call, cpc, cret>>

----------------------------------------------------------------------------
(* Bounds *)

MaxSegs  == 4     \* longest traced path, in segments
MaxBatch == 3     \* longest batch handed to ProcessPatches
MaxLen   == 3     \* longest path / from of a patch handed to validatePatch, in tokens
MaxPathSegs == 3  \* longest path handed to validatePath, in segments
MaxShiftLen == 4  \* longest path / from of a patch that is shifted, in tokens

----------------------------------------------------------------------------
(* Operation names *)

Add     == "add"
Remove  == "remove"
Replace == "replace"
Move    == "move"
Copy    == "copy"
Test    == "test"

(* Error codes *)
ErrorInvalidOperation == "InvalidOperation"
ErrorInvalidPath      == "InvalidPath"
ErrorInvalidSegment   == "InvalidSegment"
ErrorInvalidValue     == "InvalidValue"

(* nil of the different Go types *)
NilError     == [nil |-> "error"]
NilOrigin    == [nil |-> "origin"]
NilPathValue == [nil |-> "PathValue"]
NilSegment   == [nil |-> "PathSegment"]
NilPatches   == [nil |-> TRUE, items |-> <<>>]
NilValue     == "<nil>"
NilMap       == [k \in {} |-> k]

(* A non-nil []Patch. *)
Slice(items) == [nil |-> FALSE, items |-> items]

(* jpatcherror.New: the error value holds the four arguments.  A details    *)
(* string built by concatenation or Sprintf is kept as its constant text    *)
(* and the sequence of values inserted into it.                             *)
New(message, code, text, arg, origin) ==
    [message |-> message, code |-> code,
     details |-> [text |-> text, arg |-> arg], origin |-> origin]

----------------------------------------------------------------------------
(* Strings *)

Sep == "/"

(* A chunk as a string: the empty chunk is the empty string. *)
Str(s) == IF s = "" THEN <<>> ELSE <<s>>

(* strings.Split(s, "/"): n separators give n + 1 elements. *)
RECURSIVE Split(_)
Split(s) ==
    IF s = <<>> THEN <<"">>
    ELSE IF Head(s) = Sep THEN <<"">> \o Split(Tail(s))
    ELSE <<Head(s)>> \o Tail(Split(Tail(s)))

(* strings.Split(s, "/")[1:] *)
SplitPath(s) == Tail(Split(s))

----------------------------------------------------------------------------
(* The schema of the host object.  PathValue = [Name, SupportedOps];        *)
(* PathSegment = [Optional, Wildcard, Values, Children].  A nil map has     *)
(* the empty domain.  The tree is the one of TestTraceObjectPathString,     *)
(* with the SupportedOps of the leaves filled in (the baz entry is the one  *)
(* of TestValidatePath) and a "*" entry given to the wild2 node, so that    *)
(* patches of every operation can pass; wild3 is a wildcard leaf that       *)
(* declares no "*" entry.  Names hold no separator.                         *)

AllOps == <<Add, Remove, Replace, Move, Copy, Test>>

PathValue(name, ops) == [Name |-> name, SupportedOps |-> ops]

bar ==
    [Optional |-> FALSE, Wildcard |-> FALSE,
     Values   |-> ("bar" :> PathValue("bar", AllOps))
               @@ ("baz" :> PathValue("baz", <<Copy, Remove>>)),
     Children |-> NilMap]

barOp == [bar EXCEPT !.Optional = TRUE]

wild ==
    [Optional |-> TRUE, Wildcard |-> TRUE,
     Values   |-> NilMap,
     Children |-> ("*" :> bar)]

wild2 ==
    [Optional |-> TRUE, Wildcard |-> TRUE,
     Values   |-> ("*" :> PathValue("*", <<Add, Remove, Move>>)),
     Children |-> ("*" :> barOp)]

wild3 ==
    [Optional |-> TRUE, Wildcard |-> TRUE,
     Values   |-> NilMap,
     Children |-> NilMap]

foo ==
    [Optional |-> FALSE, Wildcard |-> FALSE,
     Values   |-> ("foo" :> PathValue("foo", <<>>))
               @@ ("wild" :> PathValue("wild", <<>>))
               @@ ("wild2" :> PathValue("wild2", <<>>))
               @@ ("wild3" :> PathValue("wild3", <<>>)),
     Children |-> ("foo" :> bar) @@ ("wild2" :> wild2) @@ ("wild" :> wild)
               @@ ("wild3" :> wild3)]

root ==
    [Optional |-> FALSE, Wildcard |-> FALSE,
     Values   |-> ("rFoo" :> PathValue("foo", <<>>))
               @@ ("rBar" :> PathValue("bar", <<>>)),
     Children |-> ("rFoo" :> foo) @@ ("rBar" :> bar)]

GetJPatchRootSegment == root

----------------------------------------------------------------------------
(* processSegment(seg, path): the resolved value, the child segment under   *)
(* the segment's key, and the error.                                       *)

processSegmentKey(seg, path) ==
    IF seg.Wildcard THEN "*" ELSE path

(* The mutant of processSegment for the unknown segment: a segment that is  *)
(* no key of Values is taken as it is written, as at a wildcard node.       *)
processSegmentLenient(seg, path) ==
    LET key == processSegmentKey(seg, path)
        nextSeg == IF key \in DOMAIN seg.Children THEN seg.Children[key]
                   ELSE NilSegment
    IN  IF seg.Wildcard \/ path \notin DOMAIN seg.Values
        THEN [val  |-> [Name |-> path, SupportedOps |-> <<>>],
              next |-> nextSeg, err |-> NilError]
        ELSE [val |-> seg.Values[path], next |-> nextSeg, err |-> NilError]

(* The mutant of processSegment for the names: the external name is kept    *)
(* at a non-wildcard node instead of the Name of its Values entry.          *)
processSegmentExternalName(seg, path) ==
    LET key == processSegmentKey(seg, path)
        nextSeg == IF key \in DOMAIN seg.Children THEN seg.Children[key]
                   ELSE NilSegment
    IN  IF seg.Wildcard
        THEN [val  |-> [Name |-> path,
                        SupportedOps |-> IF "*" \in DOMAIN seg.Values
                                         THEN seg.Values["*"].SupportedOps
                                         ELSE <<>>],
              next |-> nextSeg, err |-> NilError]
        ELSE IF path \notin DOMAIN seg.Values
             THEN [val |-> NilPathValue, next |-> NilSegment,
                   err |-> New("Invalid path", ErrorInvalidSegment,
                               "unknown segement: ", <<path>>, NilOrigin)]
             ELSE [val |-> [seg.Values[path] EXCEPT !.Name = path],
                   next |-> nextSeg, err |-> NilError]

(* The mutant of processSegment for the wildcard node: the name is taken    *)
(* after path was set to "*", and the "*" entry is not looked up.           *)
processSegmentStarName(seg, path) ==
    LET key == processSegmentKey(seg, path)
        nextSeg == IF key \in DOMAIN seg.Children THEN seg.Children[key]
                   ELSE NilSegment
    IN  IF seg.Wildcard
        THEN [val  |-> [Name |-> "*", SupportedOps |-> <<>>],
              next |-> nextSeg, err |-> NilError]
        ELSE IF path \notin DOMAIN seg.Values
             THEN [val |-> NilPathValue, next |-> NilSegment,
                   err |-> New("Invalid path", ErrorInvalidSegment,
                               "unknown segement: ", <<path>>, NilOrigin)]
             ELSE [val |-> seg.Values[path], next |-> nextSeg, err |-> NilError]

processSegment(seg, path) ==
    LET key == processSegmentKey(seg, path)
        nextSeg == IF key \in DOMAIN seg.Children THEN seg.Children[key]
                   ELSE NilSegment
    IN  IF seg.Wildcard
        THEN [val  |-> [Name |-> path,
                        SupportedOps |-> IF "*" \in DOMAIN seg.Values
                                         THEN seg.Values["*"].SupportedOps
                                         ELSE <<>>],
              next |-> nextSeg, err |-> NilError]
        ELSE IF path \notin DOMAIN seg.Values
             THEN [val |-> NilPathValue, next |-> NilSegment,
                   err |-> New("Invalid path", ErrorInvalidSegment,
                               "unknown segement: ", <<path>>, NilOrigin)]
             ELSE [val |-> seg.Values[path], next |-> nextSeg, err |-> NilError]

(* The locals of traceObjectPathString when its loop starts. *)
TraceInit(rt) ==
    [i |-> 0, currentSegment |-> rt, finalPath |-> <<>>, lastPath |-> NilPathValue]

TraceFail(err) == [path |-> <<>>, val |-> NilPathValue, err |-> err]

(* The three checks of an iteration, on the value and child that          *)
(* processSegment resolved for segment i of splitLength.                    *)
(* The mutant of dashNotFinal: the segment before the last is let through. *)
dashNotFinalButOne(pathValue, i, splitLength) ==
    pathValue.Name = "-" /\ i < splitLength - 2

dashNotFinal(pathValue, i, splitLength) ==
    pathValue.Name = "-" /\ i < splitLength - 1

(* The mutant of requiredMissing: Optional is not looked at. *)
requiredMissingAnyChild(nextSeg, i, splitLength) ==
    nextSeg # NilSegment /\ i = splitLength - 1

requiredMissing(nextSeg, i, splitLength) ==
    nextSeg # NilSegment /\ i = splitLength - 1 /\ nextSeg.Optional = FALSE

undefinedSegment(nextSeg, i, splitLength) ==
    nextSeg = NilSegment /\ i < splitLength - 1

(* One iteration of the range loop, for segment split[st.i + 1]: either a   *)
(* return (returned = TRUE, ret) or the locals after the iteration (st).    *)
TraceIter(path, split, st) ==
    LET i           == st.i
        splitLength == Len(split)
        r           == processSegment(st.currentSegment, split[i + 1])
    IN  IF r.err # NilError
        THEN [returned |-> TRUE, st |-> st, ret |-> TraceFail(r.err)]
        ELSE IF dashNotFinal(r.val, i, splitLength)
        THEN [returned |-> TRUE, st |-> st,
              ret |-> TraceFail(New("Invalid Path", ErrorInvalidPath,
                                    "'-' must be final path segment", <<>>, NilOrigin))]
        ELSE IF requiredMissing(r.next, i, splitLength)
        THEN [returned |-> TRUE, st |-> st,
              ret |-> TraceFail(New("Invalid Path", ErrorInvalidPath,
                                    "required path segment missing", <<>>, NilOrigin))]
        ELSE IF undefinedSegment(r.next, i, splitLength)
        THEN [returned |-> TRUE, st |-> st,
              ret |-> TraceFail(New("Invalid path", ErrorInvalidPath,
                                    "path reaches undefined segment: ", path, NilOrigin))]
        ELSE [returned |-> FALSE,
              st |-> [i |-> i + 1, currentSegment |-> r.next,
                      finalPath |-> st.finalPath \o <<Sep>> \o Str(r.val.Name),
                      lastPath |-> r.val],
              ret |-> TraceFail(NilError)]

(* The return after the loop. *)
TraceDone(st) == [path |-> st.finalPath, val |-> st.lastPath, err |-> NilError]

RECURSIVE TraceLoop(_, _, _)
TraceLoop(path, split, st) ==
    IF st.i >= Len(split) THEN TraceDone(st)
    ELSE LET it == TraceIter(path, split, st)
         IN  IF it.returned THEN it.ret ELSE TraceLoop(path, split, it.st)

traceObjectPathString(path, op, rt) ==
    TraceLoop(path, SplitPath(path), TraceInit(rt))

(* The mutant of allowedOperation: only the first supported operation is    *)
(* looked at.                                                               *)
allowedOperationFirst(op, ops) == Len(ops) > 0 /\ op = ops[1]

allowedOperation(op, ops) == \E k \in 1..Len(ops) : op = ops[k]

(* The mutant of validOperation: the empty operation passes. *)
validOperationOrEmpty(op) ==
    op = "" \/ allowedOperation(op, <<Add, Remove, Replace, Copy, Move, Test>>)

validOperation(op) == allowedOperation(op, <<Add, Remove, Replace, Copy, Move, Test>>)

(* The mutant of validatePath: the operations on "-" are not checked. *)
validatePathDashUnchecked(path, op, rt) ==
    LET t == traceObjectPathString(path, op, rt)
    IN  IF t.err # NilError THEN [path |-> t.path, err |-> t.err]
        ELSE IF ~allowedOperation(op, t.val.SupportedOps)
        THEN [path |-> <<>>,
              err |-> New("Invalid operation", ErrorInvalidOperation,
                          "supported operations are: %v", t.val.SupportedOps, NilOrigin)]
        ELSE [path |-> t.path, err |-> NilError]

validatePath(path, op, rt) ==
    LET t == traceObjectPathString(path, op, rt)
    IN  IF t.err # NilError THEN [path |-> t.path, err |-> t.err]
        ELSE IF t.val.Name = "-" /\ (op = Remove \/ op = Test \/ op = Replace)
        THEN [path |-> <<>>,
              err |-> New("Invalid Operation", ErrorInvalidOperation,
                          "cannot %v array index of '-'", <<op>>, NilOrigin)]
        ELSE IF ~allowedOperation(op, t.val.SupportedOps)
        THEN [path |-> <<>>,
              err |-> New("Invalid operation", ErrorInvalidOperation,
                          "supported operations are: %v", t.val.SupportedOps, NilOrigin)]
        ELSE [path |-> t.path, err |-> NilError]

validateFrom(path, op, rt) ==
    LET t == traceObjectPathString(path, op, rt)
    IN  IF t.err # NilError THEN [path |-> t.path, err |-> t.err]
        ELSE IF t.path = <<"-">>
        THEN [path |-> <<>>,
              err |-> New("Invalid Operation", ErrorInvalidOperation,
                          "cannot %v array index of '-'", <<op>>, NilOrigin)]
        ELSE [path |-> t.path, err |-> NilError]

(* splitLength == 0 || (splitLength == 1 && split[0] == "") *)
EmptySplit(split) == Len(split) = 0 \/ (Len(split) = 1 /\ split[1] = "")

(* p.Op == Copy || p.Op == Move *)
fromRequired(op) == op = Copy \/ op = Move

(* The mutant of valueRequired: a value is asked of move instead of test. *)
valueRequiredMove(op) == op = Add \/ op = Replace \/ op = Move

(* p.Op == Add || p.Op == Replace || p.Op == Test *)
valueRequired(op) == op = Add \/ op = Replace \/ op = Test

validatePatch(p) ==
    IF ~validOperation(p.Op)
    THEN New("Invalid operation", ErrorInvalidOperation,
             "supported operations are: %v, %v, %v, %v, %v and %v",
             <<Add, Remove, Replace, Copy, Move, Test>>, p)
    ELSE IF EmptySplit(SplitPath(p.Path))
    THEN New("Empty Paths Not Supported", ErrorInvalidPath,
             "paths must begin with /", <<>>, p)
    ELSE IF fromRequired(p.Op) /\ EmptySplit(SplitPath(p.From))
    THEN New("From path required", ErrorInvalidPath,
             "copy and move operations require from", <<>>, p)
    ELSE IF valueRequired(p.Op) /\ p.Value = NilValue
    THEN New("Value required", ErrorInvalidValue, "value required for %v", <<p.Op>>, p)
    ELSE NilError

----------------------------------------------------------------------------
(* Inputs *)

Patch(op, path, value, from) == [Op |-> op, Path |-> path, Value |-> value, From |-> from]

(* The path made of the given segments: "/" + segment, for each. *)
RECURSIVE PathOf(_)
PathOf(segs) ==
    IF segs = <<>> THEN <<>> ELSE <<Sep>> \o Str(Head(segs)) \o PathOf(Tail(segs))

SeqsUpTo(S, n) == UNION {[1..k -> S] : k \in 0..n}

(* Segments a traced path is made of: keys of the schema, the append        *)
(* marker, an index, an unknown name and the empty segment.                 *)
SegmentInputs == {"rFoo", "foo", "wild", "wild2", "wild3", "bar", "-", "1", "zzz", ""}

PathsUpTo(n) == {PathOf(segs) : segs \in SeqsUpTo(SegmentInputs, n)}

TracePaths == PathsUpTo(MaxSegs)

(* Strings handed to validatePatch as path and from: every string of at     *)
(* most MaxLen tokens over the separator and one chunk.                     *)
Canonical(s) == \A k \in 1..(Len(s) - 1) : s[k] = Sep \/ s[k + 1] = Sep

ShapeStrings == {s \in SeqsUpTo({Sep, "a"}, MaxLen) : Canonical(s)}

OpInputs == {Add, Remove, Replace, Move, Copy, Test, "invalid", ""}

ValueInputs == {NilValue, "1234"}

ValidateInputs ==
    {Patch(op, path, value, from) :
        op \in OpInputs, path \in ShapeStrings, value \in ValueInputs, from \in ShapeStrings}

(* Patches the batches handed to ProcessPatches are made of. *)
pBar   == PathOf(<<"rFoo", "foo", "bar">>)
pDash  == PathOf(<<"rFoo", "wild2", "-">>)
pFrom  == PathOf(<<"rBar", "bar">>)
pBad   == PathOf(<<"zzz">>)

PatchInputs ==
    { Patch(Add, pBar, "1234", <<>>),
      Patch(Add, pDash, "1234", <<>>),
      Patch(Remove, pBar, NilValue, <<>>),
      Patch(Replace, pBar, "1234", <<>>),
      Patch(Move, pBar, NilValue, pFrom),
      Patch(Copy, pBar, NilValue, pFrom),
      Patch(Test, pBar, "1234", <<>>),
      Patch(Add, pBar, "1234", pFrom),
      Patch("invalid", pBar, "1234", <<>>),
      Patch(Replace, pBar, NilValue, <<>>),
      Patch(Remove, pDash, NilValue, <<>>),
      Patch(Move, pBad, NilValue, pBad),
      Patch(Copy, pBar, NilValue, pBad),
      Patch(Add, pBar, "1234", pBad),
      Patch(Move, pBar, NilValue, pDash) }

Batches == SeqsUpTo(PatchInputs, MaxBatch)

----------------------------------------------------------------------------
(* The host object's ValidateJPatchPatches: it either accepts the patches   *)
(* it is handed or rejects them with its own errors.                        *)

HostError == New("rejected by host", "Host", "", <<>>, NilOrigin)

ValidateJPatchPatches(vPatches) ==
    { [patches |-> Slice(vPatches), errs |-> <<>>],
      [patches |-> NilPatches, errs |-> <<HostError>>] }

NoReturn == [nil |-> "none"]

----------------------------------------------------------------------------
(* ProcessPatches *)

IdleProcess ==
    /\ patches = <<>> /\ idx = 0 /\ errs = <<>>
    /\ vAdd = <<>> /\ vRemove = <<>> /\ vMove = <<>> /\ vReplace = <<>>
    /\ pc = "idle" /\ ret = NoReturn /\ handed = <<>>

IdleValidate == vp = NoReturn /\ vpc = "idle" /\ verr = NoReturn

IdleTrace == tpath = <<>> /\ tstate = NoReturn /\ tpc = "idle" /\ tret = NoReturn

IdleCall == call = NoReturn /\ cpc = "idle" /\ cret = NoReturn

InitProcess ==
    /\ patches \in Batches
    /\ idx = 1
    /\ errs = <<>>
    /\ vAdd = <<>> /\ vRemove = <<>> /\ vMove = <<>> /\ vReplace = <<>>
    /\ pc = "loop"
    /\ ret = NoReturn
    /\ handed = <<>>

(* One iteration of "for _, p := range patches" whose validatePatch fails. *)
LoopInvalidPatch ==
    /\ pc = "loop" /\ idx <= Len(patches)
    /\ LET p == patches[idx]
           err == validatePatch(p)
       IN  /\ err # NilError
           /\ errs' = Append(errs, err)
    /\ idx' = idx + 1
    /\ UNCHANGED <<patches, vAdd, vRemove, vMove, vReplace, pc, ret, handed>>
    /\ UNCHANGED <<vvars, tvars, cvars>>

(* The part of the loop body after validatePatch: validatePath and, when    *)
(* From is not empty, validateFrom; each appends its error and rewrites     *)
(* the field of the loop's copy of the patch, also when it failed.          *)
ValidatePaths(p, es, rootSegment) ==
    LET vpath == validatePath(p.Path, p.Op, rootSegment)
        errs1 == IF vpath.err # NilError THEN Append(es, vpath.err) ELSE es
        p1    == [p EXCEPT !.Path = vpath.path]
    IN  IF p1.From # <<>>
        THEN LET vfrom == validateFrom(p1.From, p1.Op, rootSegment)
             IN  [errs |-> IF vfrom.err # NilError THEN Append(errs1, vfrom.err) ELSE errs1,
                  p    |-> [p1 EXCEPT !.From = vfrom.path]]
        ELSE [errs |-> errs1, p |-> p1]

(* The mutant of LoopValidatePaths: a copy patch is put with the adds and   *)
(* a test patch with the replacements.                                      *)
LoopValidatePathsAllBucketed ==
    /\ pc = "loop" /\ idx <= Len(patches)
    /\ validatePatch(patches[idx]) = NilError
    /\ \E p2 \in {ValidatePaths(patches[idx], errs, GetJPatchRootSegment)} :
           /\ errs' = p2.errs
           /\ vAdd'     = IF p2.p.Op \in {Add, Copy}     THEN Append(vAdd, p2.p)     ELSE vAdd
           /\ vMove'    = IF p2.p.Op = Move               THEN Append(vMove, p2.p)    ELSE vMove
           /\ vRemove'  = IF p2.p.Op = Remove             THEN Append(vRemove, p2.p)  ELSE vRemove
           /\ vReplace' = IF p2.p.Op \in {Replace, Test} THEN Append(vReplace, p2.p) ELSE vReplace
    /\ idx' = idx + 1
    /\ UNCHANGED <<patches, pc, ret, handed>>
    /\ UNCHANGED <<vvars, tvars, cvars>>

(* One iteration whose patch passes validatePatch: path and from are        *)
(* validated and rewritten, and the patch is put into the bucket of its op. *)
LoopValidatePaths ==
    /\ pc = "loop" /\ idx <= Len(patches)
    /\ validatePatch(patches[idx]) = NilError
    /\ \E p2 \in {ValidatePaths(patches[idx], errs, GetJPatchRootSegment)} :
           /\ errs' = p2.errs
           /\ vAdd'     = IF p2.p.Op = Add     THEN Append(vAdd, p2.p)     ELSE vAdd
           /\ vMove'    = IF p2.p.Op = Move    THEN Append(vMove, p2.p)    ELSE vMove
           /\ vRemove'  = IF p2.p.Op = Remove  THEN Append(vRemove, p2.p)  ELSE vRemove
           /\ vReplace' = IF p2.p.Op = Replace THEN Append(vReplace, p2.p) ELSE vReplace
    /\ idx' = idx + 1
    /\ UNCHANGED <<patches, pc, ret, handed>>
    /\ UNCHANGED <<vvars, tvars, cvars>>

(* The mutant of vPatches: moves are put before replacements. *)
vPatchesMoveFirst == vRemove \o vMove \o vReplace \o vAdd

(* vPatches := vRemove, vReplace..., vMove..., vAdd... *)
vPatches == vRemove \o vReplace \o vMove \o vAdd

(* The mutant of ReturnErrs: the patches that passed are handed on and      *)
(* returned beside the errors.                                              *)
ReturnErrsPartial ==
    /\ pc = "loop" /\ idx > Len(patches)
    /\ Len(errs) # 0
    /\ handed' = Append(handed, vPatches)
    /\ ret' = [patches |-> Slice(vPatches), errs |-> errs]
    /\ pc' = "done"
    /\ UNCHANGED <<patches, idx, errs, vAdd, vRemove, vMove, vReplace>>
    /\ UNCHANGED <<vvars, tvars, cvars>>

(* After the loop, with errors: return nil, errs. *)
ReturnErrs ==
    /\ pc = "loop" /\ idx > Len(patches)
    /\ Len(errs) # 0
    /\ ret' = [patches |-> NilPatches, errs |-> errs]
    /\ pc' = "done"
    /\ UNCHANGED <<patches, idx, errs, vAdd, vRemove, vMove, vReplace, handed>>
    /\ UNCHANGED <<vvars, tvars, cvars>>

(* After the loop, without errors: return pable.ValidateJPatchPatches(vPatches). *)
ReturnFinalized ==
    /\ pc = "loop" /\ idx > Len(patches)
    /\ Len(errs) = 0
    /\ handed' = Append(handed, vPatches)
    /\ ret' \in ValidateJPatchPatches(vPatches)
    /\ pc' = "done"
    /\ UNCHANGED <<patches, idx, errs, vAdd, vRemove, vMove, vReplace>>
    /\ UNCHANGED <<vvars, tvars, cvars>>

Init == InitProcess /\ IdleValidate /\ IdleTrace /\ IdleCall

Next == LoopInvalidPatch \/ LoopValidatePaths \/ ReturnErrs \/ ReturnFinalized

Spec == Init /\ [][Next]_vars

----------------------------------------------------------------------------
(* validatePatch, applied to one patch *)

InitValidate ==
    /\ vp \in ValidateInputs
    /\ vpc = "call"
    /\ verr = NoReturn
    /\ IdleProcess /\ IdleTrace /\ IdleCall

CallValidatePatch ==
    /\ vpc = "call"
    /\ verr' = validatePatch(vp)
    /\ vpc' = "done"
    /\ UNCHANGED <<vp, pvars, tvars, cvars>>

NextValidate == CallValidatePatch

SpecValidate == InitValidate /\ [][NextValidate]_vars

----------------------------------------------------------------------------
(* traceObjectPathString, applied to one path, one loop iteration per step *)

InitTrace ==
    /\ tpath \in TracePaths
    /\ tstate = TraceInit(GetJPatchRootSegment)
    /\ tpc = "loop"
    /\ tret = NoReturn
    /\ IdleProcess /\ IdleValidate /\ IdleCall

(* An iteration that goes on to the next segment. *)
TraceStep ==
    /\ tpc = "loop" /\ tstate.i < Len(SplitPath(tpath))
    /\ LET it == TraceIter(tpath, SplitPath(tpath), tstate)
       IN  /\ ~it.returned
           /\ tstate' = it.st
    /\ UNCHANGED <<tpath, tpc, tret, pvars, vvars, cvars>>

(* An iteration that returns an error. *)
TraceReject ==
    /\ tpc = "loop" /\ tstate.i < Len(SplitPath(tpath))
    /\ LET it == TraceIter(tpath, SplitPath(tpath), tstate)
       IN  /\ it.returned
           /\ tret' = it.ret
    /\ tpc' = "done"
    /\ UNCHANGED <<tpath, tstate, pvars, vvars, cvars>>

(* The return after the last segment. *)
TraceReturn ==
    /\ tpc = "loop" /\ tstate.i >= Len(SplitPath(tpath))
    /\ tret' = TraceDone(tstate)
    /\ tpc' = "done"
    /\ UNCHANGED <<tpath, tstate, pvars, vvars, cvars>>

NextTrace == TraceStep \/ TraceReject \/ TraceReturn

SpecTrace == InitTrace /\ [][NextTrace]_vars

----------------------------------------------------------------------------
(* validatePath on its own: one call on a path and an operation that        *)
(* validatePatch lets through, against the root of the schema.              *)

(* The segments of the traced paths, and the keys of the second root entry *)
(* and of the value that supports two operations only.                      *)
PathSegmentInputs == SegmentInputs \cup {"rBar", "baz"}

PathInputs ==
    {path \in {PathOf(segs) : segs \in SeqsUpTo(PathSegmentInputs, MaxPathSegs)} :
        ~EmptySplit(SplitPath(path))}

InitPath ==
    /\ call \in {[fn |-> "validatePath", path |-> path, op |-> op] :
                    path \in PathInputs, op \in {Add, Remove, Replace, Move, Copy, Test}}
    /\ cpc = "call"
    /\ cret = NoReturn
    /\ IdleProcess /\ IdleValidate /\ IdleTrace

CallValidatePath ==
    /\ cpc = "call"
    /\ call.fn = "validatePath"
    /\ cret' = validatePath(call.path, call.op, GetJPatchRootSegment)
    /\ cpc' = "done"
    /\ UNCHANGED <<call, pvars, vvars, tvars>>

NextPath == CallValidatePath

SpecPath == InitPath /\ [][NextPath]_vars

----------------------------------------------------------------------------
(* jpatcherror: an error is built by New and read through its accessors.    *)

(* A string handed over as details: a text with no inserted values. *)
Text(s) == [text |-> s, arg |-> <<>>]

Message(e) == e.message

Code(e) == e.details

Origin(e) == e.origin

Details(e) == e.details

MessageInputs == {"Invalid operation", "Value required", ""}

CodeInputs == {ErrorInvalidOperation, ErrorInvalidPath, ErrorInvalidSegment,
               ErrorInvalidValue, ""}

DetailInputs ==
    {[text |-> "", arg |-> <<>>],
     [text |-> ErrorInvalidOperation, arg |-> <<>>],
     [text |-> "required path segment missing", arg |-> <<>>],
     [text |-> "cannot %v array index of '-'", arg |-> <<Remove>>],
     [text |-> "unknown segement: %v", arg |-> <<"zzz">>]}

OriginInputs == {NilOrigin, Patch(Add, pBar, NilValue, <<>>), Patch(Move, pBar, NilValue, pFrom)}

InitError ==
    /\ call \in {[fn |-> "New", message |-> m, code |-> c, details |-> d, origin |-> o] :
                    m \in MessageInputs, c \in CodeInputs,
                    d \in DetailInputs, o \in OriginInputs}
    /\ cpc = "call"
    /\ cret = NoReturn
    /\ IdleProcess /\ IdleValidate /\ IdleTrace

(* e := jpatcherror.New(...), and then what each accessor gives for e. *)
CallNew ==
    /\ cpc = "call"
    /\ call.fn = "New"
    /\ \E e \in {New(call.message, call.code, call.details.text, call.details.arg,
                       call.origin)} :
           cret' = [Message |-> Message(e), Code |-> Code(e),
                    Details |-> Details(e), Origin |-> Origin(e)]
    /\ cpc' = "done"
    /\ UNCHANGED <<call, pvars, vvars, tvars>>

NextError == CallNew

SpecError == InitError /\ [][NextError]_vars

----------------------------------------------------------------------------
(* Patch.Shift: one call on a patch.                                        *)

(* strings.Join(elems, "/") *)
RECURSIVE Join(_)
Join(elems) ==
    IF elems = <<>> THEN <<>>
    ELSE IF Len(elems) = 1 THEN Str(elems[1])
    ELSE Str(Head(elems)) \o <<Sep>> \o Join(Tail(elems))

(* What a call that panics gives: nothing is returned. *)
Panic == [panic |-> "slice bounds out of range"]

(* split[1:] panics when split, strings.Split(s, "/")[1:], is empty. *)
ShiftPanics(s) == Len(SplitPath(s)) = 0

(* "/" + strings.Join(split[1:], "/") *)
ShiftString(s) == <<Sep>> \o Join(Tail(SplitPath(s)))

Shift(p) ==
    IF ShiftPanics(p.Path) \/ (p.From # <<>> /\ ShiftPanics(p.From)) THEN Panic
    ELSE [Op    |-> p.Op,
          Value |-> p.Value,
          Path  |-> ShiftString(p.Path),
          From  |-> IF p.From # <<>> THEN ShiftString(p.From) ELSE <<>>]

(* Paths and froms of the patches shifted: every string of at most          *)
(* MaxShiftLen tokens over the separator and two chunks.                    *)
ShiftStrings == {s \in SeqsUpTo({Sep, "l1", "l3"}, MaxShiftLen) : Canonical(s)}

InitShift ==
    /\ call \in {[fn |-> "Shift", p |-> Patch(Add, path, value, from)] :
                    path \in ShiftStrings, value \in ValueInputs, from \in ShiftStrings}
    /\ cpc = "call"
    /\ cret = NoReturn
    /\ IdleProcess /\ IdleValidate /\ IdleTrace

(* The receiver is a copy of the caller's patch: call.p is left alone. *)
CallShift ==
    /\ cpc = "call"
    /\ call.fn = "Shift"
    /\ Shift(call.p) # Panic
    /\ cret' = Shift(call.p)
    /\ cpc' = "done"
    /\ UNCHANGED <<call, pvars, vvars, tvars>>

PanicShift ==
    /\ cpc = "call"
    /\ call.fn = "Shift"
    /\ Shift(call.p) = Panic
    /\ cpc' = "panic"
    /\ UNCHANGED <<call, cret, pvars, vvars, tvars>>

NextShift == CallShift \/ PanicShift

SpecShift == InitShift /\ [][NextShift]_vars

----------------------------------------------------------------------------
(* Properties of ProcessPatches (Spec) *)

(* A patch fails validation: validatePatch, validatePath or, when From is   *)
(* not empty, validateFrom returns an error for it.                         *)
Fails(p) ==
    \/ validatePatch(p) # NilError
    \/ validatePath(p.Path, p.Op, GetJPatchRootSegment).err # NilError
    \/ (p.From # <<>> /\ validateFrom(p.From, p.Op, GetJPatchRootSegment).err # NilError)

Failing(batch) == {k \in 1..Len(batch) : Fails(batch[k])}

(* C1: all-or-nothing.  For every batch with at least one failing patch,    *)
(* ValidateJPatchPatches is never invoked, and ProcessPatches returns a nil *)
(* patch list together with a non-empty error list.                         *)
C1_AllOrNothing ==
    Failing(patches) # {} =>
        /\ handed = <<>>
        /\ pc = "done" => (ret.patches = NilPatches /\ Len(ret.errs) > 0)

(* A batch that mixes passing and failing patches has been rejected. *)
C1_Witness ==
    /\ pc = "done"
    /\ Len(patches) = 3
    /\ Failing(patches) = {2}
    /\ ret.patches = NilPatches
    /\ Len(ret.errs) = 1

Rank(op) == CASE op = Remove -> 1 [] op = Replace -> 2 [] op = Move -> 3 [] op = Add -> 4

OfOp(seq, op) == SelectSeq(seq, LAMBDA q : q.Op = op)

(* C2: for every batch in which all patches pass, the sequence handed to    *)
(* ValidateJPatchPatches lists the remove patches, then the replace         *)
(* patches, then the move patches, then the add patches, and the patches    *)
(* of each of the four operations are the input's patches of that           *)
(* operation in input order.                                                *)
C2_BucketOrder ==
    (pc = "done" /\ Failing(patches) = {}) =>
        /\ Len(handed) = 1
        /\ \A k \in 1..Len(handed[1]) : handed[1][k].Op \in {Remove, Replace, Move, Add}
        /\ \A j, k \in 1..Len(handed[1]) :
              j < k => Rank(handed[1][j].Op) <= Rank(handed[1][k].Op)
        /\ \A op \in {Remove, Replace, Move, Add} :
              LET h  == OfOp(handed[1], op)
                  in == OfOp(patches, op)
              IN  /\ Len(h) = Len(in)
                  /\ \A k \in 1..Len(h) : h[k].Value = in[k].Value
                  /\ \A k \in 1..Len(h) :
                        h[k].Path = validatePath(in[k].Path, op, GetJPatchRootSegment).path

(* A batch add, add, remove of three different patches was handed on as     *)
(* remove, add, add, the two adds in input order.                           *)
C2_Witness ==
    /\ pc = "done"
    /\ Len(patches) = 3 /\ Len(handed) = 1 /\ Len(handed[1]) = 3
    /\ patches[1].Op = Add /\ patches[2].Op = Add /\ patches[3].Op = Remove
    /\ patches[1].Path # patches[2].Path
    /\ handed[1][1].Op = Remove
    /\ handed[1][2].Op = Add /\ handed[1][3].Op = Add
    /\ handed[1][2].Path # handed[1][3].Path

(* C3: the error list ProcessPatches collects has exactly one entry for     *)
(* each failing patch of the batch and none for a passing patch.            *)
C3_OneErrorPerFailingPatch ==
    pc = "done" => Len(errs) = Cardinality(Failing(patches))

----------------------------------------------------------------------------
(* Properties of validatePatch (SpecValidate) *)

KnownOps == {Add, Remove, Replace, Move, Copy, Test}

(* The string is made of separators only (the empty string included). *)
OnlySeparators(s) == \A k \in 1..Len(s) : s[k] = Sep

(* The path has a non-empty segment after its leading separator. *)
HasSegment(s) == \E k \in 1..Len(SplitPath(s)) : SplitPath(s)[k] # ""

(* C4: for every patch whose op is none of the six operations,              *)
(* validatePatch returns an InvalidOperation error, whatever path, from     *)
(* and value are.                                                          *)
C4_UnknownOperation ==
    (vpc = "done" /\ vp.Op \notin KnownOps) =>
        (verr # NilError /\ verr.code = ErrorInvalidOperation)

(* An unknown operation with an empty path, an empty from and no value was  *)
(* rejected for its operation.                                             *)
C4_Witness ==
    /\ vpc = "done"
    /\ vp.Op = "invalid" /\ vp.Path = <<>> /\ vp.From = <<>> /\ vp.Value = NilValue
    /\ verr # NilError
    /\ verr.code = ErrorInvalidOperation

(* C5: for every patch with a known op whose path has no non-empty segment  *)
(* after the leading separator (the empty string, "/", or separators       *)
(* only), validatePatch returns an InvalidPath error with the message       *)
(* "Empty Paths Not Supported".                                            *)
C5_EmptyPath ==
    (vpc = "done" /\ vp.Op \in KnownOps /\ OnlySeparators(vp.Path)) =>
        /\ verr # NilError
        /\ verr.code = ErrorInvalidPath
        /\ verr.message = "Empty Paths Not Supported"

(* C6: for every move or copy patch with a non-empty path whose from has no *)
(* non-empty segment after the leading separator, validatePatch returns an  *)
(* InvalidPath error with the message "From path required".               *)
C6_FromRequired ==
    (vpc = "done" /\ vp.Op \in {Move, Copy} /\ HasSegment(vp.Path)
        /\ OnlySeparators(vp.From)) =>
        /\ verr # NilError
        /\ verr.code = ErrorInvalidPath
        /\ verr.message = "From path required"

(* C7: for every add, replace or test patch with a non-empty path and a nil *)
(* value, validatePatch returns an InvalidValue error with the message      *)
(* "Value required"; for remove, move and copy a nil value is no reason     *)
(* for rejection: the result is no InvalidValue error, and it is the        *)
(* result for the same patch with a value.                                  *)
C7_ValueRequired ==
    vpc = "done" =>
        /\ (vp.Op \in {Add, Replace, Test} /\ HasSegment(vp.Path) /\ vp.Value = NilValue) =>
              /\ verr # NilError
              /\ verr.code = ErrorInvalidValue
              /\ verr.message = "Value required"
        /\ (vp.Op \in {Remove, Move, Copy} /\ vp.Value = NilValue) =>
              /\ verr # NilError => verr.code # ErrorInvalidValue
              /\ (verr = NilError) <=> (validatePatch([vp EXCEPT !.Value = "1234"]) = NilError)

(* A test patch with a path and no value was rejected for its value. *)
C7_Witness ==
    /\ vpc = "done"
    /\ vp.Op = Test /\ vp.Path = <<Sep, "a">> /\ vp.Value = NilValue
    /\ verr # NilError
    /\ verr.message = "Value required"

----------------------------------------------------------------------------
(* Properties of traceObjectPathString (SpecTrace) *)

ChildKey(node, seg) == IF node.Wildcard THEN "*" ELSE seg

ChildOf(node, seg) ==
    IF ChildKey(node, seg) \in DOMAIN node.Children
    THEN node.Children[ChildKey(node, seg)] ELSE NilSegment

(* The schema node that segment k of the path lies at: the root for the     *)
(* first segment, then the child under the key of the segment before.       *)
RECURSIVE NodeAt(_, _)
NodeAt(split, k) ==
    IF k = 1 THEN GetJPatchRootSegment
    ELSE LET prev == NodeAt(split, k - 1)
         IN  IF prev = NilSegment THEN NilSegment ELSE ChildOf(prev, split[k - 1])

Resolves(split, k) ==
    /\ NodeAt(split, k) # NilSegment
    /\ NodeAt(split, k).Wildcard \/ split[k] \in DOMAIN NodeAt(split, k).Values

NameAt(split, k) ==
    IF NodeAt(split, k).Wildcard THEN split[k] ELSE NodeAt(split, k).Values[split[k]].Name

(* Segment k lies at a non-wildcard node and is no key of its Values. *)
UnknownAt(split, k) ==
    /\ NodeAt(split, k) # NilSegment
    /\ ~NodeAt(split, k).Wildcard
    /\ split[k] \notin DOMAIN NodeAt(split, k).Values

(* A segment before segment k resolves to the name "-". *)
DashBefore(split, k) ==
    \E j \in 1..(k - 1) : Resolves(split, j) /\ NameAt(split, j) = "-"

Unknowns(split) == {k \in 1..Len(split) : UnknownAt(split, k)}

FirstUnknown(split) == CHOOSE k \in Unknowns(split) : \A j \in Unknowns(split) : k <= j

Rejected(r) == r.path = <<>> /\ r.val = NilPathValue /\ r.err # NilError

(* C8, as stated: every path with a segment that lies at a non-wildcard     *)
(* node and is no key of its Values is rejected with an empty path, a nil   *)
(* value and an InvalidSegment error.                                       *)
C8_UnknownSegment ==
    (tpc = "done" /\ Unknowns(SplitPath(tpath)) # {}) =>
        (Rejected(tret) /\ tret.err.code = ErrorInvalidSegment)

(* C8, amended: such a path is rejected with an empty path and a nil value; *)
(* the error is InvalidSegment unless a segment before the first unknown    *)
(* one resolves to "-", and then it is the InvalidPath error                *)
(* "'-' must be final path segment".                                       *)
C8_UnknownSegmentUnlessDash ==
    (tpc = "done" /\ Unknowns(SplitPath(tpath)) # {}) =>
        /\ Rejected(tret)
        /\ IF DashBefore(SplitPath(tpath), FirstUnknown(SplitPath(tpath)))
           THEN /\ tret.err.code = ErrorInvalidPath
                /\ tret.err.details.text = "'-' must be final path segment"
           ELSE tret.err.code = ErrorInvalidSegment

(* An unknown second segment was rejected as InvalidSegment although the    *)
(* segments after it are keys of the schema.                                *)
C8_Witness ==
    /\ tpc = "done"
    /\ SplitPath(tpath) = <<"rFoo", "zzz", "foo", "bar">>
    /\ Rejected(tret)
    /\ tret.err.code = ErrorInvalidSegment

(* C9: for every accepted path, the internal path has as many segments as   *)
(* the input, segment k being the Name of the Values entry at a             *)
(* non-wildcard node and the literal segment at a wildcard node, each       *)
(* preceded by "/"; the value returned is the one of the last segment.      *)
C9_InternalPath ==
    (tpc = "done" /\ tret.err = NilError) =>
        LET split == SplitPath(tpath)
            out   == SplitPath(tret.path)
            n     == Len(split)
        IN  /\ Len(out) = n
            /\ \A k \in 1..n : Resolves(split, k) /\ out[k] = NameAt(split, k)
            /\ tret.path = PathOf([k \in 1..n |-> NameAt(split, k)])
            /\ n > 0 =>
                  /\ tret.val # NilPathValue
                  /\ tret.val.Name = NameAt(split, n)
                  /\ ~NodeAt(split, n).Wildcard =>
                        tret.val = NodeAt(split, n).Values[split[n]]

(* /rFoo/foo/bar was accepted as /foo/foo/bar with the value named bar. *)
C9_Witness ==
    /\ tpc = "done"
    /\ tpath = <<Sep, "rFoo", Sep, "foo", Sep, "bar">>
    /\ tret.err = NilError
    /\ tret.path = <<Sep, "foo", Sep, "foo", Sep, "bar">>
    /\ tret.val.Name = "bar"

(* Every segment before the last resolves, to a name other than "-", at a   *)
(* node with a child under its key; the last one resolves.                  *)
ValidUpToLast(split) ==
    /\ Len(split) > 0
    /\ \A k \in 1..Len(split) : Resolves(split, k)
    /\ \A k \in 1..(Len(split) - 1) : NameAt(split, k) # "-"

RequiredChildAfterLast(split) ==
    /\ ValidUpToLast(split)
    /\ ChildOf(NodeAt(split, Len(split)), split[Len(split)]) # NilSegment
    /\ ChildOf(NodeAt(split, Len(split)), split[Len(split)]).Optional = FALSE

IsRequiredMissing(r) ==
    /\ r.err # NilError
    /\ r.err.code = ErrorInvalidPath
    /\ r.err.details = [text |-> "required path segment missing", arg |-> <<>>]

(* C10: a path whose last segment resolves at a node with a child under     *)
(* the segment's key ("*" at a wildcard node) that is not Optional fails    *)
(* with the InvalidPath error "required path segment missing", however      *)
(* many valid segments precede it; when the child is Optional or absent,    *)
(* the path does not fail with this error.                                  *)
C10_RequiredChild ==
    tpc = "done" =>
        (RequiredChildAfterLast(SplitPath(tpath)) <=> (Rejected(tret) /\ IsRequiredMissing(tret)))

(* /rFoo/wild/1 stops before the required child of the wildcard node. *)
C10_Witness ==
    /\ tpc = "done"
    /\ SplitPath(tpath) = <<"rFoo", "wild", "1">>
    /\ IsRequiredMissing(tret)

(* Segment j is not the last one, it and every segment before it resolve,   *)
(* and it resolves to the name "-".                                        *)
DashNotLastAt(split, j) ==
    /\ j < Len(split)
    /\ \A k \in 1..j : Resolves(split, k)
    /\ NameAt(split, j) = "-"

IsDashNotFinal(r) ==
    /\ r.err # NilError
    /\ r.err.code = ErrorInvalidPath
    /\ r.err.details = [text |-> "'-' must be final path segment", arg |-> <<>>]

(* C11: no accepted path has a segment that resolves to "-" before its      *)
(* last segment: whenever a segment that is not the last resolves to "-",   *)
(* tracing fails with the InvalidPath error "'-' must be final path         *)
(* segment", also when the segments after it are valid in the schema.       *)
C11_DashMustBeFinal ==
    (tpc = "done" /\ \E j \in 1..Len(SplitPath(tpath)) : DashNotLastAt(SplitPath(tpath), j)) =>
        (Rejected(tret) /\ IsDashNotFinal(tret))

(* /rFoo/wild/-/bar, whose last segment is a key of the child of wild, was  *)
(* rejected for its "-".                                                   *)
C11_Witness ==
    /\ tpc = "done"
    /\ SplitPath(tpath) = <<"rFoo", "wild", "-", "bar">>
    /\ Rejected(tret)
    /\ IsDashNotFinal(tret)

----------------------------------------------------------------------------
(* More properties of ProcessPatches (Spec) *)

(* The from of the patch traces, and its last segment resolves to "-". *)
FromDash(p) ==
    /\ p.From # <<>>
    /\ LET t == traceObjectPathString(p.From, p.Op, GetJPatchRootSegment)
       IN  t.err = NilError /\ t.val # NilPathValue /\ t.val.Name = "-"

(* C14: for every batch with a patch whose from traces and ends in a        *)
(* segment that resolves to "-", validation of that from fails with an      *)
(* InvalidOperation error, so ProcessPatches rejects the batch.             *)
C14_FromDashRejected ==
    (pc = "done" /\ \E k \in 1..Len(patches) : FromDash(patches[k])) =>
        /\ \E e \in 1..Len(errs) : errs[e].code = ErrorInvalidOperation
        /\ handed = <<>>
        /\ ret.patches = NilPatches

(* The patch without a from that its operation does not use. *)
WithoutUnusedFrom(p) == IF p.Op \in {Move, Copy} THEN p ELSE [p EXCEPT !.From = <<>>]

(* C15: in every sequence handed to ValidateJPatchPatches, from is empty    *)
(* for every patch that is no move or copy, and a from on such a patch is   *)
(* ignored: a batch whose patches pass without it is not rejected.          *)
C15_FromOnlyForMoveCopy ==
    pc = "done" =>
        /\ \A c \in 1..Len(handed) : \A k \in 1..Len(handed[c]) :
              handed[c][k].Op \notin {Move, Copy} => handed[c][k].From = <<>>
        /\ (\A k \in 1..Len(patches) : ~Fails(WithoutUnusedFrom(patches[k]))) =>
              (Len(errs) = 0 /\ Len(handed) = 1)

Forwarded == {Remove, Replace, Move, Add}

(* C19: for every batch in which all patches pass, the sequence handed to   *)
(* ValidateJPatchPatches holds the input's remove, replace, move and add    *)
(* patches, each once and with its path translated, and no copy or test     *)
(* patch; a failing copy or test patch still has the batch rejected.        *)
C19_CopyTestNotForwarded ==
    /\ (pc = "done" /\ Failing(patches) = {}) =>
          /\ Len(handed) = 1
          /\ \A k \in 1..Len(handed[1]) : handed[1][k].Op \notin {Copy, Test}
          /\ Len(handed[1]) = Cardinality({k \in 1..Len(patches) : patches[k].Op \in Forwarded})
          /\ \A k \in 1..Len(patches) :
                patches[k].Op \in Forwarded =>
                   \E j \in 1..Len(handed[1]) :
                      /\ handed[1][j].Op = patches[k].Op
                      /\ handed[1][j].Value = patches[k].Value
                      /\ handed[1][j].Path =
                            validatePath(patches[k].Path, patches[k].Op, GetJPatchRootSegment).path
    /\ (\E k \in 1..Len(patches) : patches[k].Op \in {Copy, Test} /\ Fails(patches[k])) =>
          /\ handed = <<>>
          /\ pc = "done" => ret.patches = NilPatches

(* A batch of a passing copy, a passing test and a passing add was handed   *)
(* on as the add alone.                                                     *)
C19_Witness ==
    /\ pc = "done"
    /\ Len(patches) = 3
    /\ patches[1].Op = Copy /\ patches[2].Op = Test /\ patches[3].Op = Add
    /\ Failing(patches) = {}
    /\ Len(handed) = 1 /\ Len(handed[1]) = 1
    /\ handed[1][1].Op = Add

----------------------------------------------------------------------------
(* Properties of validatePath (SpecPath) *)

(* The path is accepted by the trace: every segment resolves, none before   *)
(* the last one to "-", and no required child is left after the last one.   *)
Traces(split) == ValidUpToLast(split) /\ ~RequiredChildAfterLast(split)

(* Name and SupportedOps of the value the last segment resolves to: the     *)
(* entry under the segment at a non-wildcard node; at a wildcard node the   *)
(* segment itself with the operations of the "*" entry, if any.             *)
TerminalName(split) == NameAt(split, Len(split))

TerminalOps(split) ==
    LET node == NodeAt(split, Len(split))
    IN  IF ~node.Wildcard THEN node.Values[split[Len(split)]].SupportedOps
        ELSE IF "*" \in DOMAIN node.Values THEN node.Values["*"].SupportedOps
        ELSE <<>>

InternalPath(split) == PathOf([k \in 1..Len(split) |-> NameAt(split, k)])

Member(op, ops) == op \in {ops[k] : k \in 1..Len(ops)}

PathAccepted(r, split) == r = [path |-> InternalPath(split), err |-> NilError]

PathRefused(r) ==
    r.path = <<>> /\ r.err # NilError /\ r.err.code = ErrorInvalidOperation

(* C12: for every path that traces to a terminal value whose name is not    *)
(* "-", validatePath returns the internal path and no error when the        *)
(* operation is one of the terminal value's SupportedOps, and an empty path *)
(* with an InvalidOperation error when it is not; the SupportedOps of the   *)
(* segments before the last play no part.                                   *)
C12_OperationWhitelist ==
    (/\ cpc = "done"
     /\ call.fn = "validatePath"
     /\ Traces(SplitPath(call.path))
     /\ TerminalName(SplitPath(call.path)) # "-") =>
        IF Member(call.op, TerminalOps(SplitPath(call.path)))
        THEN PathAccepted(cret, SplitPath(call.path))
        ELSE PathRefused(cret)

(* remove on /rBar/baz, whose value supports copy and remove, was accepted  *)
(* as /bar/baz, and test on the same path would be refused; replace on      *)
(* /rFoo/foo/bar would be accepted although foo and rFoo support nothing.   *)
C12_Witness ==
    /\ cpc = "done"
    /\ call = [fn |-> "validatePath", path |-> PathOf(<<"rBar", "baz">>), op |-> Remove]
    /\ TerminalOps(SplitPath(call.path)) = <<Copy, Remove>>
    /\ cret = [path |-> PathOf(<<"bar", "baz">>), err |-> NilError]
    /\ PathRefused(validatePath(call.path, Test, GetJPatchRootSegment))
    /\ root.Values["rFoo"].SupportedOps = <<>>
    /\ foo.Values["foo"].SupportedOps = <<>>
    /\ validatePath(pBar, Replace, GetJPatchRootSegment).err = NilError

(* C13: for every path that traces to a terminal value named "-",           *)
(* validatePath refuses remove, test and replace with an InvalidOperation   *)
(* error whatever the terminal value's SupportedOps are, and accepts add,   *)
(* move and copy when the operation is one of the SupportedOps.             *)
C13_DashOperations ==
    (/\ cpc = "done"
     /\ call.fn = "validatePath"
     /\ Traces(SplitPath(call.path))
     /\ TerminalName(SplitPath(call.path)) = "-") =>
        /\ call.op \in {Remove, Test, Replace} =>
              /\ PathRefused(cret)
              /\ cret.err.details = [text |-> "cannot %v array index of '-'",
                                     arg  |-> <<call.op>>]
        /\ (call.op \in {Add, Move, Copy}
               /\ Member(call.op, TerminalOps(SplitPath(call.path)))) =>
              PathAccepted(cret, SplitPath(call.path))

(* remove on /rFoo/wild2/- was refused although the "*" entry of wild2      *)
(* supports remove, and add on the same path would be accepted.             *)
C13_Witness ==
    /\ cpc = "done"
    /\ call = [fn |-> "validatePath", path |-> pDash, op |-> Remove]
    /\ TerminalName(SplitPath(call.path)) = "-"
    /\ Member(Remove, TerminalOps(SplitPath(call.path)))
    /\ PathRefused(cret)
    /\ validatePath(pDash, Add, GetJPatchRootSegment)
          = [path |-> PathOf(<<"foo", "wild2", "-">>), err |-> NilError]

----------------------------------------------------------------------------
(* Properties of jpatcherror.New (SpecError) *)

(* C16: every error built by New(message, code, details, origin) gives      *)
(* back each argument through its own accessor: Message() the message,      *)
(* Code() the code, Details() the details and Origin() the origin.          *)
C16_Accessors ==
    (cpc = "done" /\ call.fn = "New") =>
        /\ cret.Message = call.message
        /\ cret.Code = Text(call.code)
        /\ cret.Details = call.details
        /\ cret.Origin = call.origin

----------------------------------------------------------------------------
(* Properties of Patch.Shift (SpecShift) *)

StartsWithSep(s) == s # <<>> /\ s[1] = Sep

HasSep(s) == \E k \in 1..Len(s) : s[k] = Sep

(* What follows the first separator of the string. *)
AfterFirstSep(s) ==
    IF ~HasSep(s) THEN <<>>
    ELSE LET k == CHOOSE i \in 1..Len(s) : s[i] = Sep /\ \A j \in 1..(i - 1) : s[j] # Sep
         IN  SubSeq(s, k + 1, Len(s))

(* The string without its first segment: what follows the first separator,  *)
(* less the chunk it starts with if any; "/" when nothing is left.          *)
DropFirstSegment(s) ==
    LET rest == AfterFirstSep(s)
        left == IF rest # <<>> /\ rest[1] # Sep THEN Tail(rest) ELSE rest
    IN  IF left = <<>> THEN <<Sep>> ELSE left

(* C17: for every patch whose Path starts with "/", Shift returns a patch   *)
(* with the same Op and Value, with the Path less its first segment ("/"    *)
(* when no segment remains), with the From less its first segment when the  *)
(* From is not empty and an empty From when it is; the patch it was called  *)
(* on is unchanged.                                                         *)
C17_ShiftDropsFirst ==
    (cpc # "call" /\ call.fn = "Shift" /\ StartsWithSep(call.p.Path)) =>
        /\ cpc = "done"
        /\ cret = [Op    |-> call.p.Op,
                   Value |-> call.p.Value,
                   Path  |-> DropFirstSegment(call.p.Path),
                   From  |-> IF call.p.From = <<>> THEN <<>>
                             ELSE DropFirstSegment(call.p.From)]

====
